---- MODULE Spec2Model ----
(***************************************************************************)
(* Betweenness centrality of road segments (src/src/main.py and            *)
(* src/src/mypackage/mymodule1.py): the command line, the two centrality   *)
(* strategies (Networkx: exact, Geo: sampled routes), the join with the    *)
(* edge table and the output folder.                                       *)
(***************************************************************************)
EXTENDS Integers, Sequences, FiniteSets, TLC

\* ---------------------------------------------------------------- bounds
MaxNode == 3      \* graphs have nodes 1..k, 1 <= k <= MaxNode
MaxEdges == 2     \* a graph has 1..MaxEdges edges (parallel edges and loops count)
MaxN == 2         \* n_routes ranges over 1..MaxN

\* Python's None; ox.shortest_path returns it for an unreachable pair.  No
\* route is the empty list, so the empty tuple stands for it.
None == <<>>

\* ----------------------------------------------------------------- graph
\* A MultiDiGraph: nodes 1..g.nodes, and g.edges the list of (u, v) in the
\* order the edges were added; the k-th edge added between the same (u, v)
\* has key k-1 (networkx numbers parallel edges 0, 1, ...).
Pairs(k) == (1..k) \X (1..k)

PairRank(p) == p[1] * (MaxNode + 2) + p[2]

\* The endpoints of an edge list, in order: u1, v1, u2, v2, ...
Endpoints(es) == [i \in 1..(2 * Len(es)) |-> es[(i + 1) \div 2][2 - (i % 2)]]

\* Node ids are names.  Of the graphs that differ only by a renaming of the
\* nodes or by the order the edges were added between different pairs, the
\* model keeps those whose edge list is sorted by pair and names the nodes in
\* the order the list first mentions them (nodes without an edge come last).
\* Every graph has such a renaming.
InOrderOfMention(es) ==
    LET ns == Endpoints(es)
    IN  \A i \in DOMAIN ns : \/ ns[i] = 1
                             \/ \E j \in 1..(i - 1) : ns[j] >= ns[i] - 1

EdgeLists(k) ==
    UNION { { es \in [1..m -> Pairs(k)] :
                /\ \A i \in 1..(m - 1) : PairRank(es[i]) <= PairRank(es[i + 1])
                /\ InOrderOfMention(es) } :
            m \in 1..MaxEdges }

\* BetweennessCentrality.__init__ calls ox.graph_to_gdfs(graph), which
\* refuses a graph without nodes or without edges: an object that exists
\* has at least one of each.
Graphs == UNION { { [nodes |-> k, edges |-> es] : es \in EdgeLists(k) } : k \in 1..MaxNode }

Nodes(g) == 1..g.nodes

KeyAt(es, i) == Cardinality({ j \in 1..(i - 1) : es[j] = es[i] })

\* The index of edges_df: one (u, v, key) per edge.
EdgeKeys(g) == { <<g.edges[i][1], g.edges[i][2], KeyAt(g.edges, i)>> : i \in DOMAIN g.edges }

KeysOf(g, u, v) == { e[3] : e \in { x \in EdgeKeys(g) : x[1] = u /\ x[2] = v } }

\* The weight attribute of an edge ("length", or "travel_time" which the
\* fastest graph derives from length with one speed per highway class; all
\* edges here are of one class).  Edge data: even keys are 2 long, odd keys 1,
\* so the lightest of two parallel edges is not always key 0.
Weight(e) == IF e[3] % 2 = 0 THEN 2 ELSE 1

Adjacent(g, u, v) == KeysOf(g, u, v) # {}

SetMin(S) == CHOOSE x \in S : \A y \in S : x <= y

MinWeight(g, u, v) == SetMin({ Weight(<<u, v, k>>) : k \in KeysOf(g, u, v) })

\* ------------------------------------------------- ox.shortest_path
SimplePaths(g, s, t) ==
    UNION { { p \in [1..m -> Nodes(g)] :
                /\ p[1] = s
                /\ p[m] = t
                /\ \A i, j \in 1..m : i # j => p[i] # p[j]
                /\ \A i \in 1..(m - 1) : Adjacent(g, p[i], p[i + 1]) } :
            m \in 2..g.nodes }

RECURSIVE PathWeightFrom(_, _, _)
PathWeightFrom(g, p, i) ==
    IF i >= Len(p) THEN 0
    ELSE MinWeight(g, p[i], p[i + 1]) + PathWeightFrom(g, p, i + 1)

PathWeight(g, p) == PathWeightFrom(g, p, 1)

ShortestPaths(g, s, t) ==
    LET ps == SimplePaths(g, s, t)
    IN  { p \in ps : \A q \in ps : PathWeight(g, p) <= PathWeight(g, q) }

\* ox.shortest_path for one origin and destination: nx.shortest_path, which
\* answers [orig] when orig = dest, and None when networkx finds no path.
\* Among equally light paths the library returns one, always the same.
ShortestPath(g, orig, dest) ==
    IF orig = dest THEN <<orig>>
    ELSE IF ShortestPaths(g, orig, dest) = {} THEN None
    ELSE CHOOSE p \in ShortestPaths(g, orig, dest) : TRUE

\* What ox.shortest_path answers on g for every pair of nodes.
\* Kept as a tuple, the pair (o, d) at index (o - 1) * g.nodes + d.
RouteTable(g) ==
    <<>> \o [i \in 1..(g.nodes * g.nodes) |->
               ShortestPath(g, ((i - 1) \div g.nodes) + 1, ((i - 1) % g.nodes) + 1)]

RouteOf(g, table, orig, dest) == table[(orig - 1) * g.nodes + dest]

\* ox.shortest_path(graph, origs, dests): one route per pair, in order.
Routes(g, table, origs, dests) ==
    [i \in DOMAIN origs |-> RouteOf(g, table, origs[i], dests[i])]

\* ------------------------------------------------------------- strings
\* A string is the tuple of its characters.
Shortest == <<"s", "h", "o", "r", "t", "e", "s", "t">>
Fastest == <<"f", "a", "s", "t", "e", "s", "t">>
NetworkxName == <<"n", "e", "t", "w", "o", "r", "k", "x">>
GeographicalName == <<"g", "e", "o", "g", "r", "a", "p", "h", "i", "c", "a", "l">>
Bogus == <<"b", "u", "s">>

\* mymodule2.input_from_commandline: choices=["shortest", "fastest"]
RouteTypeChoices == {Shortest, Fastest}

\* -------------------------------------------------------------- state
VARIABLES
    argv,            \* the command line: study_area, outfile, route_types, method, n_routes
    pc,              \* where main() is
    printed,         \* what main() and argparse have printed, in order
    raised,          \* the exception that ended the run, or "none"
    graph,           \* obj.graph
    routing,         \* what ox.shortest_path answers on obj.graph, pair by pair
    type,            \* obj.type
    weight,          \* obj.weight
    method,          \* obj.method
    n,               \* obj.n
    routes_valid,    \* Geo.generate_routes: routes_valid
    temp,            \* Geo.generate_routes: temp
    size,            \* Geo.generate_routes: the size= of the last np.random.choice
    hit,             \* Geo.generate_routes: the last turn drew a pair that has a route
    centrality_df,   \* obj.centrality_df: edge key -> centrality
    centrality_gdf,  \* obj.centrality_gdf: the rows of the joined layer
    dirs,            \* the directories that exist
    files,           \* the files written
    made             \* the path create_new_folder returned, by object: (area, type, method, n)

vars == <<argv, pc, printed, raised, graph, routing, type, weight, method, n, routes_valid,
          temp, size, hit, centrality_df, centrality_gdf, dirs, files, made>>

NoGraph == [nodes |-> 0, edges |-> <<>>]
NoTable == <<>>

StudyArea == <<"a">>
OutFile == <<"o">>

Argvs ==
    { [study_area |-> StudyArea, outfile |-> OutFile, route_types |-> rt,
       method |-> NetworkxName, n_routes |-> 0] : rt \in RouteTypeChoices \cup {Bogus} }
    \cup
    { [study_area |-> StudyArea, outfile |-> OutFile, route_types |-> rt,
       method |-> GeographicalName, n_routes |-> k] :
         rt \in RouteTypeChoices \cup {Bogus}, k \in 1..MaxN }

Init ==
    /\ argv \in Argvs
    /\ pc = "start"
    /\ printed = <<>>
    /\ raised = "none"
    /\ graph = NoGraph
    /\ routing = <<>>
    /\ type = None
    /\ weight = None
    /\ method = None
    /\ n = 0
    /\ routes_valid = <<>>
    /\ temp = 0
    /\ size = 0
    /\ hit = FALSE
    /\ centrality_df = NoTable
    /\ centrality_gdf = {}
    /\ dirs = {}
    /\ files = {}
    /\ made = {}

\* ------------------------------------------------------------- main()
\* main.py 15-19 with mymodule2.input_from_commandline: argparse checks
\* route_types against its choices; on a value outside them parse_args calls
\* parser.error, which prints the usage to stderr and raises SystemExit(2).
\* No ValueError leaves parse_args, so the except clause of main never runs.
ParseArgs(a) ==
    IF a.route_types \in RouteTypeChoices
    THEN [exc |-> "none", out |-> <<"Processing...">>]
    ELSE [exc |-> "SystemExit", out |-> <<"usage: invalid choice">>]

InputFromCommandline ==
    /\ pc = "start"
    /\ LET r == ParseArgs(argv)
       IN  /\ printed' = printed \o r.out
           /\ raised' = r.exc
           /\ pc' = IF r.exc = "none" THEN "args_parsed" ELSE "exited"
    /\ UNCHANGED <<argv, graph, routing, type, weight, method, n, routes_valid, temp, size, hit,
                   centrality_df, centrality_gdf, dirs, files, made>>

\* main.py 22-26: ox.graph_from_place, outside any try: the graph of the
\* place, or an error of the geocoder or the network.
GraphFromPlace ==
    /\ pc = "args_parsed"
    /\ \/ /\ \E g \in Graphs : graph' = g /\ routing' = RouteTable(g)
          /\ printed' = Append(printed, "nodes|route segments")
          /\ pc' = "graph_loaded"
          /\ raised' = raised
       \/ /\ graph' = graph
          /\ routing' = routing
          /\ printed' = printed
          /\ pc' = "crashed"
          /\ raised' = "graph_from_place"
    /\ UNCHANGED <<argv, type, weight, method, n, routes_valid, temp, size, hit,
                   centrality_df, centrality_gdf, dirs, files, made>>

\* BetweennessCentrality.__init__ (18-47): the weight attribute of the type.
WeightOf(rt) == IF rt = Shortest THEN "length" ELSE "travel_time"

\* main.py 29-34 with Networkx.__init__ (111-115) and Geo.__init__ (133-139).
Construct ==
    /\ pc = "graph_loaded"
    /\ type' = argv.route_types
    /\ weight' = WeightOf(argv.route_types)
    /\ method' = argv.method
    /\ n' = IF argv.method = NetworkxName THEN Len(graph.edges) ELSE argv.n_routes
    /\ pc' = "constructed"
    /\ printed' = Append(printed, "Calculating betweenness centrality...")
    /\ UNCHANGED <<argv, raised, graph, routing, routes_valid, temp, size, hit,
                   centrality_df, centrality_gdf, dirs, files, made>>

\* ------------------------------------------------- Geo.generate_routes
\* A slip: the whole count is drawn again, whatever is already accepted.
ShortfallWhole(n_, valid) == n_

\* temp = self.n - len(routes_valid)   (144 and 155)
Shortfall(n_, valid) == n_ - Len(valid)

\* A slip: the test turned round.
IsNoRoute(r) == r = None

\* temp_valid = [r for r in routes if r is not None]   (152)
IsValidRoute(r) == r # None

\* 143-144: the list is empty and temp is the whole count.
GenerateRoutesEnter ==
    /\ pc = "constructed"
    /\ method = GeographicalName
    /\ routes_valid' = <<>>
    /\ temp' = Shortfall(n, <<>>)
    /\ pc' = "loop_test"
    /\ UNCHANGED <<argv, printed, raised, graph, routing, type, weight, method, n, size, hit,
                   centrality_df, centrality_gdf, dirs, files, made>>

\* 145 and 156: while temp != 0 takes another turn, or the list is returned.
GenerateRoutesWhile ==
    /\ pc = "loop_test"
    /\ pc' = IF temp # 0 THEN "sampling" ELSE "routes_returned"
    /\ UNCHANGED <<argv, printed, raised, graph, routing, type, weight, method, n,
                   routes_valid, temp, size, hit,
                   centrality_df, centrality_gdf, dirs, files, made>>

\* 146-155: the body of the loop, one turn.
GenerateRoutesTurn(origs, dests) ==
    LET routes == Routes(graph, routing, origs, dests)
        temp_valid == SelectSeq(routes, IsValidRoute)
    IN  /\ size' = Len(origs)
        /\ hit' = \E i \in DOMAIN routes : routes[i] # None
        /\ routes_valid' = routes_valid \o temp_valid
        /\ temp' = Shortfall(n, routes_valid')
        /\ pc' = "loop_test"

\* np.random.choice(self.graph.nodes, size=temp, replace=True), twice.
Draws == [1..temp -> Nodes(graph)]

GenerateRoutesCycle ==
    /\ pc = "sampling"
    /\ \E origs \in Draws, dests \in Draws : GenerateRoutesTurn(origs, dests)
    /\ UNCHANGED <<argv, printed, raised, graph, routing, type, weight, method, n,
                   centrality_df, centrality_gdf, dirs, files, made>>

\* ------------------------------------------------------ Geo.centrality
\* A slip: the number of parallel edges taken for a key.
KeyCount(g, u, v) == Cardinality(KeysOf(g, u, v))

\* ox.routing.route_to_gdf(graph, route) pairs route[:-1] with route[1:] and
\* takes, for each pair, the parallel edge of least length (the first such
\* key): one row (u, v, key) per step of the route.
LightestKey(g, u, v) ==
    SetMin({ k \in KeysOf(g, u, v) : Weight(<<u, v, k>>) = MinWeight(g, u, v) })

RouteToGdf(g, route) ==
    [i \in 1..(Len(route) - 1) |-> <<route[i], route[i + 1], LightestKey(g, route[i], route[i + 1])>>]

\* route_to_gdf reads the rows from graph_to_gdfs(graph.subgraph(route)),
\* which raises ValueError on a subgraph without edges: a route of one node
\* that has no loop edge.
RouteToGdfRaises(g, route) == Len(route) = 1 /\ ~Adjacent(g, route[1], route[1])

\* pd.concat(routes_gdf_list): the rows of all routes, in order.
RECURSIVE Concat(_)
Concat(frames) ==
    IF frames = <<>> THEN <<>> ELSE Head(frames) \o Concat(Tail(frames))

\* A slip: the groups without their sizes.
GroupByFirst(rows) == [k \in { rows[i] : i \in DOMAIN rows } |-> 1]

\* routes_gdf.groupby(["u", "v", "key"]).count()["osmid"]: one row per edge
\* key among the rows, with the number of rows that carry it.
GroupByCount(rows) ==
    [k \in { rows[i] : i \in DOMAIN rows } |->
        Cardinality({ i \in DOMAIN rows : rows[i] = k })]

\* 158-171, after generate_routes has returned.  Nothing in main catches the
\* ValueError of route_to_gdf.
GeoCentrality ==
    /\ pc = "routes_returned"
    /\ IF \E i \in DOMAIN routes_valid : RouteToGdfRaises(graph, routes_valid[i])
       THEN /\ raised' = "ValueError"
            /\ pc' = "crashed"
            /\ centrality_df' = centrality_df
       ELSE LET routes_gdf_list == [i \in DOMAIN routes_valid |-> RouteToGdf(graph, routes_valid[i])]
            IN  /\ centrality_df' = GroupByCount(Concat(routes_gdf_list))
                /\ pc' = "centrality_done"
                /\ raised' = raised
    /\ UNCHANGED <<argv, printed, graph, routing, type, weight, method, n, routes_valid,
                   temp, size, hit, centrality_gdf, dirs, files, made>>

\* ------------------------------------------------- Networkx.centrality
\* A centrality of nx.edge_betweenness_centrality is a fraction <<num, den>>
\* in lowest terms.
RECURSIVE Gcd(_, _)
Gcd(a, b) == IF b = 0 THEN a ELSE Gcd(b, a % b)

Frac(num, den) == IF num = 0 THEN <<0, 1>> ELSE <<num \div Gcd(num, den), den \div Gcd(num, den)>>

FracAdd(x, y) == Frac(x[1] * y[2] + y[1] * x[2], x[2] * y[2])

Half == <<1, 2>>

PathUses(p, u, v) == \E i \in 1..(Len(p) - 1) : p[i] = u /\ p[i + 1] = v

\* The share of the shortest s-t paths that step from u to v.
PairDependency(g, s, t, u, v) ==
    LET ps == ShortestPaths(g, s, t)
    IN  IF s = t \/ ps = {} THEN <<0, 1>>
        ELSE Frac(Cardinality({ p \in ps : PathUses(p, u, v) }), Cardinality(ps))

RECURSIVE SumDependencies(_, _, _, _)
SumDependencies(g, u, v, i) ==
    IF i = 0 THEN <<0, 1>>
    ELSE FracAdd(PairDependency(g, ((i - 1) \div g.nodes) + 1, ((i - 1) % g.nodes) + 1, u, v),
                 SumDependencies(g, u, v, i - 1))

\* A slip: the scale of an undirected graph counted once per pair, 2 / (n (n - 1)).
RescaleUndirected(x, nodes) == IF nodes <= 1 THEN x ELSE Frac(2 * x[1], x[2] * nodes * (nodes - 1))

\* networkx _rescale_e with normalized=True: 1 / (n (n - 1)), and nothing
\* when the graph has one node.
Rescale(x, nodes) == IF nodes <= 1 THEN x ELSE Frac(x[1], x[2] * nodes * (nodes - 1))

\* networkx _add_edge_keys: the score of (u, v) is shared by its parallel
\* edges of least weight; the other parallel edges score 0.
EdgeBetweenness(g) ==
    [e \in EdgeKeys(g) |->
        LET light == { k \in KeysOf(g, e[1], e[2]) : Weight(<<e[1], e[2], k>>) = MinWeight(g, e[1], e[2]) }
            bc == Rescale(SumDependencies(g, e[1], e[2], g.nodes * g.nodes), g.nodes)
        IN  IF e[3] \in light THEN Frac(bc[1], bc[2] * Cardinality(light)) ELSE <<0, 1>>]

\* 117-127
NetworkxCentrality ==
    /\ pc = "constructed"
    /\ method = NetworkxName
    /\ centrality_df' = EdgeBetweenness(graph)
    /\ pc' = "centrality_done"
    /\ UNCHANGED <<argv, printed, raised, graph, routing, type, weight, method, n,
                   routes_valid, temp, size, hit, centrality_gdf, dirs, files, made>>

\* ------------------------------- BetweennessCentrality.join_dataframe
\* str(): the decimal digits of a number that is not negative.
Digit(d) == <<"0", "1", "2", "3", "4", "5", "6", "7", "8", "9">>[d + 1]

RECURSIVE Str(_)
Str(k) == IF k < 10 THEN <<Digit(k)>> ELSE Append(Str(k \div 10), Digit(k % 10))

NaN == <<"n", "a", "n">>

\* Edge data: the OSM way of an edge; the two directions of a street are one way.
OsmId(e) == 10 * (IF e[1] < e[2] THEN e[1] ELSE e[2]) + (IF e[1] < e[2] THEN e[2] ELSE e[1])

\* self.edges_df[["osmid", "geometry"]] (42 and 52): one row per edge of the
\* graph, indexed by (u, v, key).
EdgesDf(g) == [e \in EdgeKeys(g) |-> [osmid |-> OsmId(e), geometry |-> <<e[1], e[2]>>]]

\* A slip: the join taken from the side of the edge table (how="right").
JoinRight(left, right) ==
    { [key |-> k, centrality |-> IF k \in DOMAIN left THEN left[k] ELSE NaN,
       osmid |-> Str(right[k].osmid), geometry |-> right[k].geometry] :
      k \in DOMAIN right }

\* DataFrame.join, a left join on the index: every row of the left table,
\* once for each row of the right table with its key, and once with missing
\* values when there is none.  Then osmid.astype("str").
Join(left, right) ==
    { [key |-> k, centrality |-> left[k],
       osmid |-> IF k \in DOMAIN right THEN Str(right[k].osmid) ELSE NaN,
       geometry |-> IF k \in DOMAIN right THEN right[k].geometry ELSE NaN] :
      k \in DOMAIN left }

\* 49-56
JoinDataframe ==
    /\ pc = "centrality_done"
    /\ centrality_gdf' = Join(centrality_df, EdgesDf(graph))
    /\ pc' = "joined"
    /\ printed' = Append(printed, "Saving the network...")
    /\ UNCHANGED <<argv, raised, graph, routing, type, weight, method, n, routes_valid,
                   temp, size, hit, centrality_df, dirs, files, made>>

\* ----------------------------- BetweennessCentrality.create_new_folder
\* f"{self.area}_{self.type}_{self.method}_{self.n}"   (62)
FolderName(area, type_, method_, n_) ==
    area \o <<"_">> \o type_ \o <<"_">> \o method_ \o <<"_">> \o Str(n_)

\* os.path.join (posixpath) of two parts: a second part that starts with
\* the separator is absolute and replaces the first; otherwise the parts
\* are put together, with a separator unless the first ends with one.
PathJoin(a, b) ==
    IF b # <<>> /\ b[1] = "/" THEN b
    ELSE IF a = <<>> \/ a[Len(a)] = "/" THEN a \o b
    ELSE a \o <<"/">> \o b

\* 61-63
OutputPath(outfile, area, type_, method_, n_) ==
    PathJoin(outfile, FolderName(area, type_, method_, n_))

\* 58-66: the path is made unless it exists, and returned.
CreateNewFolderCall ==
    LET output_path == OutputPath(argv.outfile, argv.study_area, type, method, n)
    IN  /\ dirs' = dirs \cup {output_path}
        /\ made' = made \cup {[area |-> argv.study_area, type |-> type, method |-> method,
                               n |-> n, path |-> output_path]}

\* main.py 43
CreateNewFolder ==
    /\ pc = "joined"
    /\ CreateNewFolderCall
    /\ pc' = "folder_made"
    /\ UNCHANGED <<argv, printed, raised, graph, routing, type, weight, method, n,
                   routes_valid, temp, size, hit, centrality_df, centrality_gdf, files>>

GpkgName == <<"centrality.gpkg">>

\* main.py 44 with save_as_geopackage (68-73), which asks create_new_folder
\* for the path again.
SaveAsGeopackage ==
    /\ pc = "folder_made"
    /\ CreateNewFolderCall
    /\ files' = files \cup
         {PathJoin(OutputPath(argv.outfile, argv.study_area, type, method, n), GpkgName)}
    /\ pc' = "gpkg_saved"
    /\ UNCHANGED <<argv, printed, raised, graph, routing, type, weight, method, n,
                   routes_valid, temp, size, hit, centrality_df, centrality_gdf>>

\* -------------------------------- BetweennessCentrality.plot_network
\* The centrality column as numbers: the counts of Geo.centrality are whole
\* numbers, the scores of Networkx.centrality are fractions.
AsFraction(method_, c) == IF method_ = GeographicalName THEN <<c, 1>> ELSE c

Column(method_, gdf) == { AsFraction(method_, r.centrality) : r \in gdf }

FracLeq(x, y) == x[1] * y[2] <= y[1] * x[2]

\* Series.min() and Series.max() of a column that is not empty.
ColumnMin(column) == CHOOSE x \in column : \A y \in column : FracLeq(x, y)

ColumnMax(column) == CHOOSE x \in column : \A y \in column : FracLeq(y, x)

\* x - y for y <= x
FracSub(x, y) == Frac(x[1] * y[2] - y[1] * x[2], x[2] * y[2])

Inf == <<"i", "n", "f">>

\* x / y as pandas divides floats: nothing is raised on a divisor of 0, the
\* quotient is nan for 0 / 0 and inf for a positive number over 0.
FracDiv(x, y) ==
    IF y[1] = 0 THEN (IF x[1] = 0 THEN NaN ELSE Inf)
    ELSE Frac(x[1] * y[2], x[2] * y[1])

\* 78-83: (centrality - min) / (max - min)
Normalize(c, column) ==
    FracDiv(FracSub(c, ColumnMin(column)), FracSub(ColumnMax(column), ColumnMin(column)))

\* self.centrality_gdf["weight"] = ...: every row gets its weight; a layer
\* without rows stays without rows.
PlotNetworkCall(method_, gdf) ==
    { [key |-> r.key, centrality |-> r.centrality, osmid |-> r.osmid, geometry |-> r.geometry,
       weight |-> Normalize(AsFraction(method_, r.centrality), Column(method_, gdf))] :
      r \in gdf }

\* main.py 45
PlotNetwork ==
    /\ pc = "gpkg_saved"
    /\ centrality_gdf' = PlotNetworkCall(method, centrality_gdf)
    /\ pc' = "plotted"
    /\ UNCHANGED <<argv, printed, raised, graph, routing, type, weight, method, n,
                   routes_valid, temp, size, hit, centrality_df, dirs, files, made>>

PngName == <<"centrality.png">>

\* main.py 46-51 with save_as_png (100-105), which plots again and asks
\* create_new_folder for the path.
SaveAsPng ==
    /\ pc = "plotted"
    /\ centrality_gdf' = PlotNetworkCall(method, centrality_gdf)
    /\ CreateNewFolderCall
    /\ files' = files \cup
         {PathJoin(OutputPath(argv.outfile, argv.study_area, type, method, n), PngName)}
    /\ pc' = "finished"
    /\ printed' = Append(printed, "Finished!")
    /\ UNCHANGED <<argv, raised, graph, routing, type, weight, method, n,
                   routes_valid, temp, size, hit, centrality_df>>

Next ==
    \/ InputFromCommandline
    \/ GraphFromPlace
    \/ Construct
    \/ GenerateRoutesEnter
    \/ GenerateRoutesWhile
    \/ GenerateRoutesCycle
    \/ GeoCentrality
    \/ NetworkxCentrality
    \/ JoinDataframe
    \/ CreateNewFolder
    \/ SaveAsGeopackage
    \/ PlotNetwork
    \/ SaveAsPng

Spec == Init /\ [][Next]_vars

\* Geo.generate_routes on its own: a Geo object as main has it when it calls
\* centrality(), for every graph and n_routes.  The route type only names
\* the edge attribute ox.shortest_path weighs by, so one route type stands
\* for both here.
SamplingInit ==
    /\ argv \in { a \in Argvs : a.method = GeographicalName /\ a.route_types = Shortest }
    /\ pc = "constructed"
    /\ printed = <<"Processing...", "nodes|route segments", "Calculating betweenness centrality...">>
    /\ raised = "none"
    /\ graph \in Graphs
    /\ routing = RouteTable(graph)
    /\ type = argv.route_types
    /\ weight = WeightOf(argv.route_types)
    /\ method = argv.method
    /\ n = argv.n_routes
    /\ routes_valid = <<>>
    /\ temp = 0
    /\ size = 0
    /\ hit = FALSE
    /\ centrality_df = NoTable
    /\ centrality_gdf = {}
    /\ dirs = {}
    /\ files = {}
    /\ made = {}

SamplingNext ==
    \/ GenerateRoutesEnter
    \/ GenerateRoutesWhile
    \/ GenerateRoutesCycle

\* Some pair of nodes of the graph has a route (ox.shortest_path does not
\* answer None for it).
HasRoutablePair == \E o, d \in Nodes(graph) : RouteOf(graph, routing, o, d) # None

\* The random draws are fair.  np.random.choice draws every pair of nodes
\* with the same positive chance at every turn, so while the loop keeps
\* running every pair is drawn again and again; what the model keeps of that:
\* if some pair has a route, the loop comes to its test again and again from
\* a turn that drew such a pair.
FairDraws ==
    []<>(pc \notin {"loop_test", "sampling"} \/ ~HasRoutablePair \/ (pc = "loop_test" /\ hit))

\* The program keeps running (the test of the loop is always taken) and the
\* draws are fair.
FairSpec ==
    /\ SamplingInit
    /\ [][SamplingNext]_vars
    /\ WF_vars(GenerateRoutesWhile)
    /\ FairDraws

\* ---------------------------------------------------------------------
\* Objects made one after another for the same output folder, each asked
\* for its directory.
MaxLen == 2         \* a study area or an output folder has 1..MaxLen characters
MaxObjects == 2     \* at most MaxObjects directories are made

Strings(alphabet) == UNION { [1..m -> alphabet] : m \in 1..MaxLen }

FolderInit ==
    /\ argv \in { [study_area |-> StudyArea, outfile |-> o, route_types |-> Shortest,
                   method |-> NetworkxName, n_routes |-> 0] : o \in Strings({"o", "/"}) }
    /\ pc = "no_object"
    /\ printed = <<>>
    /\ raised = "none"
    /\ graph = NoGraph
    /\ routing = <<>>
    /\ type = None
    /\ weight = None
    /\ method = None
    /\ n = 0
    /\ routes_valid = <<>>
    /\ temp = 0
    /\ size = 0
    /\ hit = FALSE
    /\ centrality_df = NoTable
    /\ centrality_gdf = {}
    /\ dirs = {}
    /\ files = {}
    /\ made = {}

\* Networkx(study_area, graph, route_types, outfile) or Geo(study_area,
\* graph, route_types, n_routes, outfile): area, type, weight, method, and n
\* (the number of edges of the graph, or n_routes).
FolderConstruct ==
    /\ pc \in {"no_object", "object"}
    /\ Cardinality(dirs) < MaxObjects
    /\ \E a \in Strings({"a", "/"}), rt \in RouteTypeChoices,
          m \in {NetworkxName, GeographicalName}, k \in 1..MaxN :
         /\ argv' = [argv EXCEPT !.study_area = a, !.route_types = rt, !.method = m,
                                 !.n_routes = IF m = GeographicalName THEN k ELSE 0]
         /\ type' = rt
         /\ weight' = WeightOf(rt)
         /\ method' = m
         /\ n' = k
    /\ pc' = "object"
    /\ UNCHANGED <<printed, raised, graph, routing, routes_valid, temp, size, hit,
                   centrality_df, centrality_gdf, dirs, files, made>>

FolderCreate ==
    /\ pc = "object"
    /\ Cardinality(dirs) < MaxObjects
    /\ CreateNewFolderCall
    /\ UNCHANGED <<argv, pc, printed, raised, graph, routing, type, weight, method, n,
                   routes_valid, temp, size, hit, centrality_df, centrality_gdf, files>>

FolderNext ==
    \/ FolderConstruct
    \/ FolderCreate

FolderSpec == FolderInit /\ [][FolderNext]_vars


\* ---------------------------------------------------------------------
\* The properties.

IsDegenerate(r) == r = None \/ Len(r) <= 1 \/ r[1] = r[Len(r)]

\* C1: every turn of the loop of Geo.generate_routes draws exactly the
\* shortfall, n minus the number of routes accepted so far; the number of
\* accepted routes never exceeds n; and the list returned holds exactly n.
C1_DrawsTheShortfall ==
    /\ [](pc \in {"loop_test", "sampling", "routes_returned"} =>
            /\ Len(routes_valid) <= n
            /\ temp = n - Len(routes_valid))
    /\ [](pc = "routes_returned" => Len(routes_valid) = n)
    /\ [][pc = "sampling" => size' = n - Len(routes_valid)]_vars

\* A call that took a second turn for a shortfall of one.
C1_Witness ==
    /\ pc = "routes_returned"
    /\ n = 2
    /\ size = 1
    /\ Len(routes_valid) = 2

\* C2: every route generate_routes returns is not None, has more than one
\* node, and starts and ends at different nodes.
C2_RoutesNotDegenerate ==
    pc = "routes_returned" => \A i \in DOMAIN routes_valid : ~IsDegenerate(routes_valid[i])

\* The route steps along the edge e: from e[1] to e[2], on the parallel edge
\* route_to_gdf picks.
Traverses(g, route, e) ==
    \E i \in 1..(Len(route) - 1) :
        /\ route[i] = e[1]
        /\ route[i + 1] = e[2]
        /\ e[3] = LightestKey(g, e[1], e[2])

TraversalCount(e) ==
    Cardinality({ i \in DOMAIN routes_valid : Traverses(graph, routes_valid[i], e) })

AnyEdgeKey == (1..MaxNode) \X (1..MaxNode) \X (0..(MaxEdges - 1))

\* C3: after Geo.centrality the table has a row for an edge key exactly when
\* a sampled route traverses the edge, and the value is the number of the n
\* sampled routes that do (between 1 and n).
C3_CountsTraversals ==
    (pc = "centrality_done" /\ method = GeographicalName) =>
        \A e \in AnyEdgeKey :
            /\ e \in DOMAIN centrality_df <=> TraversalCount(e) >= 1
            /\ e \in DOMAIN centrality_df =>
                 /\ centrality_df[e] = TraversalCount(e)
                 /\ centrality_df[e] >= 1
                 /\ centrality_df[e] <= n

\* Two routes over one edge, one of them going on over a second edge.
C3_Witness ==
    /\ pc = "centrality_done"
    /\ method = GeographicalName
    /\ \E e \in DOMAIN centrality_df : centrality_df[e] = 2
    /\ \E e \in DOMAIN centrality_df : centrality_df[e] = 1
    /\ \E i \in DOMAIN routes_valid : Len(routes_valid[i]) = 3

\* The graph has one edge, and it joins two different nodes.
OneViableEdge(g) ==
    /\ Cardinality(EdgeKeys(g)) = 1
    /\ \A e \in EdgeKeys(g) : e[1] # e[2]

\* C4: on a graph with exactly one viable edge and n = 1, Geo.centrality
\* ends, whatever is drawn, with the table of one row: that edge, centrality 1.
C4_OneEdgeOneRoute ==
    (method = GeographicalName /\ n = 1 /\ OneViableEdge(graph)
        /\ pc \in {"centrality_done", "crashed"}) =>
        /\ pc = "centrality_done"
        /\ DOMAIN centrality_df = EdgeKeys(graph)
        /\ \A e \in EdgeKeys(graph) : centrality_df[e] = 1

\* C5: on the graph of two nodes and the edges (u, v, 0) and (v, u, 0),
\* Networkx.centrality returns exactly those two keys, each with 0.5.
C5_TwoWayStreet ==
    (pc = "centrality_done" /\ method = NetworkxName /\ graph.nodes = 2
        /\ EdgeKeys(graph) = {<<1, 2, 0>>, <<2, 1, 0>>}) =>
        /\ DOMAIN centrality_df = {<<1, 2, 0>>, <<2, 1, 0>>}
        /\ centrality_df[<<1, 2, 0>>] = Half
        /\ centrality_df[<<2, 1, 0>>] = Half

C5_Witness ==
    /\ pc = "centrality_done"
    /\ method = NetworkxName
    /\ graph.nodes = 2
    /\ EdgeKeys(graph) = {<<1, 2, 0>>, <<2, 1, 0>>}
    /\ DOMAIN centrality_df # {}

\* C6: the layer join_dataframe builds has the edge keys of the centrality
\* table, as many rows, and on each row the centrality of the table.
C6_JoinKeepsRows ==
    pc = "joined" =>
        /\ { r.key : r \in centrality_gdf } = DOMAIN centrality_df
        /\ Cardinality(centrality_gdf) = Cardinality(DOMAIN centrality_df)
        /\ \A r \in centrality_gdf : r.centrality = centrality_df[r.key]

\* A sampled table of one row joined with an edge table of two.
C6_Witness ==
    /\ pc = "joined"
    /\ method = GeographicalName
    /\ Cardinality(centrality_gdf) = 1
    /\ Cardinality(EdgeKeys(graph)) = 2

\* C8: a route type outside the choices ends as a ValueError caught in main,
\* which prints its message; no other failure, no centrality, no file.
C8_InvalidTypeIsCaught ==
    (argv.route_types \notin RouteTypeChoices /\ pc # "start") =>
        /\ raised = "none"
        /\ \E i \in DOMAIN printed : printed[i] = "Please check the input"
        /\ centrality_df = NoTable
        /\ files = {}

\* No pair of nodes of the graph has a route of more than one node.
NoValidPair(g, table) == \A o, d \in Nodes(g) : IsDegenerate(RouteOf(g, table, o, d))

\* C10: on a graph without any pair that has a route of more than one node,
\* generate_routes with n > 0 never returns and never fails.
C10_NeverReturns ==
    (method = GeographicalName /\ n > 0 /\ NoValidPair(graph, routing)) =>
        /\ pc \in {"constructed", "loop_test", "sampling"}
        /\ raised = "none"

\* C7: the directory of an object is the same at every call of
\* create_new_folder, and two objects that differ in (area, type, method, n)
\* never get the same directory under one output folder.
C7_NoCollision ==
    \A x \in made : \A y \in made :
        /\ <<x.area, x.type, x.method, x.n>> = <<y.area, y.type, y.method, y.n>> => x.path = y.path
        /\ x.path = y.path => <<x.area, x.type, x.method, x.n>> = <<y.area, y.type, y.method, y.n>>

HasValidPair == ~NoValidPair(graph, routing)

\* C9: with n > 0, on a graph that has a pair with a route of more than one
\* node, and under fair draws, generate_routes returns.
C9_EventuallyReturns ==
    (pc = "sampling" /\ n > 0 /\ HasValidPair) ~> (pc = "routes_returned")

\* A call that met an unreachable pair, took a second turn, and returned
\* routes of more than one node.
C9_Witness ==
    /\ pc = "routes_returned"
    /\ HasValidPair
    /\ \E o, d \in Nodes(graph) : RouteOf(graph, routing, o, d) = None
    /\ size < n
    /\ \A i \in DOMAIN routes_valid : ~IsDegenerate(routes_valid[i])

\* C11: after centrality() of either strategy every edge key of the
\* centrality table is a key of the edge table of the graph, and the layer
\* join_dataframe builds from it has no row with a missing osmid or geometry.
C11_JoinIsTotal ==
    /\ pc \in {"centrality_done", "joined", "folder_made", "gpkg_saved", "plotted", "finished"} =>
            DOMAIN centrality_df \subseteq DOMAIN EdgesDf(graph)
    /\ pc \in {"joined", "folder_made", "gpkg_saved", "plotted", "finished"} =>
            \A r \in centrality_gdf : r.osmid # NaN /\ r.geometry # NaN

\* A sampled layer with a row for the second of two parallel edges, which
\* carries the osmid and the geometry of that edge.
C11_Witness ==
    /\ pc = "joined"
    /\ method = GeographicalName
    /\ \E r \in centrality_gdf :
          /\ r.key[3] = 1
          /\ r.osmid = Str(OsmId(r.key))
          /\ r.geometry = <<r.key[1], r.key[2]>>

\* C12: after plot_network every row of a layer that is not empty has a
\* weight that is a number from 0 to 1, also when all rows have the same
\* centrality.
C12_WeightInUnitInterval ==
    pc \in {"plotted", "finished"} =>
        \A r \in centrality_gdf :
            /\ r.weight # NaN
            /\ r.weight # Inf
            /\ FracLeq(<<0, 1>>, r.weight)
            /\ FracLeq(r.weight, <<1, 1>>)

====
